---- MODULE Spec2Model ----
(***************************************************************************)
(* A model of pipe_py (src/pipe_py/__init__.py) and of its example driver  *)
(* (src/main.py): one PipeClient shared by cooperatively scheduled tasks,  *)
(* the channels (remote processes) it spawns, and the argument lists and   *)
(* command lines it builds for them.                                       *)
(*                                                                         *)
(* A step of the model is what one task runs between two suspension points *)
(* of the asyncio event loop.  Strings are sequences of one-character      *)
(* strings, so that quoting and word splitting are computed, not assumed.  *)
(***************************************************************************)
EXTENDS Naturals, Sequences, FiniteSets

VARIABLES
    client,      \* PipeClient.client: NULL or the index in conns of a connection
    conns,       \* every connection asyncssh.connect has returned: "live" | "closed" | "lost"
    attempts,    \* count of the asyncssh.connect calls: by open() called directly, by
                 \* open() called from pipe/pub/sub, and how many have failed
    procs,       \* every remote process create_process has returned
    pc,          \* per task: where it is suspended
    call,        \* per task: the call it is in (operation, inputs, captured values)
    last,        \* how the call that ended most recently ended, and whose it was
    ncalls,      \* number of calls started so far
    closeCalled  \* close() has closed the session's connection and no connection
                 \* has been established since

vars == <<client, conns, attempts, procs, pc, call, last, ncalls, closeCalled>>

----------------------------------------------------------------------------
(* Bounds *)

NumTasks == 3
MaxCalls == 3
MaxTopicLen == 2
MaxBytes == 2
MaxRead == 2

Tasks == 1 .. NumTasks

\* self.client = None
NULL == 0

----------------------------------------------------------------------------
(* Strings *)

S_pipe    == <<"p", "i", "p", "e">>
S_pub     == <<"p", "u", "b">>
S_sub     == <<"s", "u", "b">>
S_p       == <<"-", "p">>
S_r       == <<"-", "r">>
S_e       == <<"-", "e">>
S_k       == <<"-", "k">>
S_bfalse  == <<"-", "b", "=", "f", "a", "l", "s", "e">>
S_t       == <<"-", "t", "=">>

\* The topics src/main.py uses.
Foobar    == <<"f", "o", "o", "b", "a", "r">>
Foobar2   == <<"f", "o", "o", "b", "a", "r", "2">>
Foobar3   == <<"f", "o", "o", "b", "a", "r", "3">>

\* The characters shlex.quote leaves alone: those matching [\w@%+=:,./-] (ASCII).
SafeChars ==
    { "a", "b", "c", "d", "e", "f", "g", "h", "i", "j", "k", "l", "m",
      "n", "o", "p", "q", "r", "s", "t", "u", "v", "w", "x", "y", "z",
      "A", "B", "C", "D", "E", "F", "G", "H", "I", "J", "K", "L", "M",
      "N", "O", "P", "Q", "R", "S", "T", "U", "V", "W", "X", "Y", "Z",
      "0", "1", "2", "3", "4", "5", "6", "7", "8", "9",
      "_", "@", "%", "+", "=", ":", ",", ".", "/", "-" }

RECURSIVE Flatten(_)
Flatten(ss) == IF ss = <<>> THEN <<>> ELSE Head(ss) \o Flatten(Tail(ss))

\* str.replace("'", "'\"'\"'") as shlex.quote uses it.
RECURSIVE ReplaceQuotes(_)
ReplaceQuotes(s) ==
    IF s = <<>> THEN <<>>
    ELSE (IF Head(s) = "'" THEN <<"'", "\"", "'", "\"", "'">> ELSE <<Head(s)>>)
         \o ReplaceQuotes(Tail(s))

\* shlex.quote(s), without the quoting: a plausible slip (plain ' '.join).
QuoteNone(s) == s

\* shlex.quote(s)
Quote(s) ==
    IF s = <<>> THEN <<"'", "'">>
    ELSE IF \A i \in 1 .. Len(s) : s[i] \in SafeChars THEN s
    ELSE <<"'">> \o ReplaceQuotes(s) \o <<"'">>

\* shlex.join(args): ' '.join(quote(arg) for arg in args)
RECURSIVE Join(_)
Join(args) ==
    IF args = <<>> THEN <<>>
    ELSE IF Len(args) = 1 THEN Quote(args[1])
    ELSE Quote(Head(args)) \o <<" ">> \o Join(Tail(args))

----------------------------------------------------------------------------
(* Argument building *)

\* pipe() with -p and -r appended in the other order.
PipeArgsSwapped(in) ==
    LET a0 == <<S_pipe>>
        a1 == IF in.topic # <<>> THEN Append(a0, in.topic) ELSE a0
        a2 == IF in.replay THEN Append(a1, S_r) ELSE a1
        a3 == IF in.public THEN Append(a2, S_p) ELSE a2
    IN  a3

\* PipeClient.pipe, lines 113-119
PipeArgs(in) ==
    LET a0 == <<S_pipe>>
        a1 == IF in.topic # <<>> THEN Append(a0, in.topic) ELSE a0
        a2 == IF in.public THEN Append(a1, S_p) ELSE a1
        a3 == IF in.replay THEN Append(a2, S_r) ELSE a2
    IN  a3

\* pub() appending -b=false when block is true.
PubArgsBlockInverted(in) ==
    LET a0 == <<S_pub>>
        a1 == IF in.topic # <<>> THEN Append(a0, in.topic) ELSE a0
        a2 == IF in.block THEN Append(a1, S_bfalse) ELSE a1
        a3 == IF in.empty THEN Append(a2, S_e) ELSE a2
        a4 == IF in.public THEN Append(a3, S_p) ELSE a3
        a5 == IF in.timeout # <<>> THEN Append(a4, S_t \o in.timeout) ELSE a4
    IN  a5

\* PipeClient.pub, lines 136-146
PubArgs(in) ==
    LET a0 == <<S_pub>>
        a1 == IF in.topic # <<>> THEN Append(a0, in.topic) ELSE a0
        a2 == IF ~in.block THEN Append(a1, S_bfalse) ELSE a1
        a3 == IF in.empty THEN Append(a2, S_e) ELSE a2
        a4 == IF in.public THEN Append(a3, S_p) ELSE a3
        a5 == IF in.timeout # <<>> THEN Append(a4, S_t \o in.timeout) ELSE a4
    IN  a5

\* sub() treating the topic as pipe() and pub() do: dropped when empty.
SubArgsTopicOptional(in) ==
    LET a0 == <<S_sub>>
        a1 == IF in.topic # <<>> THEN Append(a0, in.topic) ELSE a0
        a2 == IF in.keep THEN Append(a1, S_k) ELSE a1
        a3 == IF in.public THEN Append(a2, S_p) ELSE a2
    IN  a3

\* PipeClient.sub, lines 156-160
SubArgs(in) ==
    LET a0 == <<S_sub, in.topic>>
        a1 == IF in.keep THEN Append(a0, S_k) ELSE a0
        a2 == IF in.public THEN Append(a1, S_p) ELSE a1
    IN  a2

ArgsOf(op, in) ==
    IF op = "pipe" THEN PipeArgs(in)
    ELSE IF op = "pub" THEN PubArgs(in)
    ELSE SubArgs(in)

\* The command line handed to create_process.
CommandLine(args) == Join(args)

FactoryOps == {"pipe", "pub", "sub"}

----------------------------------------------------------------------------
(* State *)

Bytes == {"x", "y"}

\* Sub.read(size = 32 * 1024)
DefaultReadSize == 32768

ReadSizes == (1 .. MaxRead) \cup {DefaultReadSize}

Min(a, b) == IF a <= b THEN a ELSE b

NoCall == [op |-> "none", in |-> <<>>, tries |-> 0, conn |-> NULL,
           chan |-> 0, size |-> 0, afterClose |-> FALSE]

NoResult == [task |-> 0, op |-> "none", status |-> "none", chan |-> 0, data |-> <<>>,
             flag |-> FALSE, size |-> 0, tries |-> 0, afterClose |-> FALSE]

\* The record of a call as it starts; afterClose: it starts on a session that
\* close() has closed.
CallRec(op, in, chan, size) ==
    [op |-> op, in |-> in, tries |-> 0, conn |-> NULL,
     chan |-> chan, size |-> size, afterClose |-> closeCalled]

\* Pipe(proc) / Pub(proc) / Sub(proc): PipeBase.__init__ binds the process and its
\* stdout reader.  recvBuf, eof and failed are the reader's receive buffer, its
\* end-of-stream flag and whether the connection under it was lost with an error
\* ("no"; "pending": the reader holds the error and has not raised it yet;
\* "raised"; "silent": the reader reports the loss as a plain end-of-stream);
\* arrived and consumed log the bytes the transport delivered and the bytes read()
\* returned; eofSeen is set when a read() has returned the empty result.
\* closing: the stdin writer no longer accepts data; sendBuf: bytes write() has
\* enqueued that the transport has not taken yet; sent: the bytes the transport
\* has taken; written logs the payloads write() accepted, in order.
NewProc(op, in, c) ==
    [kind |-> op, in |-> in, args |-> ArgsOf(op, in),
     cmd |-> CommandLine(ArgsOf(op, in)), conn |-> c,
     recvBuf |-> <<>>, eof |-> FALSE, failed |-> "no",
     arrived |-> <<>>, consumed |-> <<>>, eofSeen |-> FALSE,
     closing |-> FALSE, sendBuf |-> <<>>, sent |-> <<>>, written |-> <<>>]

\* PipeClient.__init__
Init ==
    /\ client = NULL
    /\ conns = <<>>
    /\ attempts = [direct |-> 0, factory |-> 0, failed |-> 0]
    /\ procs = <<>>
    /\ pc = [t \in Tasks |-> "idle"]
    /\ call = [t \in Tasks |-> NoCall]
    /\ last = NoResult
    /\ ncalls = 0
    /\ closeCalled = FALSE

CanStart(t) == pc[t] = "idle" /\ ncalls < MaxCalls

\* The call cr of task t returns (status "ok") or raises (any other status); flag
\* is the value a query returns.
FinishWith(t, cr, status, chan, data, flag) ==
    /\ pc' = [pc EXCEPT ![t] = "idle"]
    /\ last' = [task |-> t, op |-> cr.op, status |-> status, chan |-> chan,
                data |-> data, flag |-> flag, size |-> cr.size, tries |-> cr.tries,
                afterClose |-> cr.afterClose]
    /\ call' = [call EXCEPT ![t] = NoCall]

Finish(t, cr, status, chan, data) == FinishWith(t, cr, status, chan, data, FALSE)

\* await asyncssh.connect(...) is entered: one more connection attempt.
StartConnect(t, cr) ==
    /\ attempts' = IF cr.op = "open"
                   THEN [attempts EXCEPT !.direct = @ + 1]
                   ELSE [attempts EXCEPT !.factory = @ + 1]
    /\ pc' = [pc EXCEPT ![t] = "connecting"]
    /\ call' = [call EXCEPT ![t] = [cr EXCEPT !.tries = cr.tries + 1]]
    /\ UNCHANGED <<client, conns, procs, last, closeCalled>>

\* await self.client.create_process(cmd) is entered on connection c: on a closed
\* connection asyncssh raises at once, otherwise the task waits for the channel.
StartSpawn(t, cr, c, cs) ==
    IF cs[c] = "live"
    THEN /\ pc' = [pc EXCEPT ![t] = "spawning"]
         /\ call' = [call EXCEPT ![t] = [cr EXCEPT !.conn = c]]
         /\ UNCHANGED last
    ELSE Finish(t, cr, "ChannelOpenError", 0, <<>>)

\* PipeClient.open() called directly.
OpenCall(t) ==
    /\ CanStart(t)
    /\ ncalls' = ncalls + 1
    /\ StartConnect(t, CallRec("open", <<>>, 0, 0))

\* PipeClient.pipe / pub / sub up to the first suspension: "if self.client is None:
\* await self.open()", else straight to create_process.
FactoryCall(t, op, in) ==
    /\ CanStart(t)
    /\ ncalls' = ncalls + 1
    /\ IF client = NULL
       THEN StartConnect(t, CallRec(op, in, 0, 0))
       ELSE /\ StartSpawn(t, CallRec(op, in, 0, 0), client, conns)
            /\ UNCHANGED <<client, conns, attempts, procs, closeCalled>>

\* asyncssh.connect returns: "self.client = await asyncssh.connect(...)" assigns the
\* new connection whatever the handle held; a factory goes on to create_process.
ConnectOk(t) ==
    /\ pc[t] = "connecting"
    /\ UNCHANGED attempts
    /\ conns' = Append(conns, "live")
    /\ client' = Len(conns) + 1
    /\ IF call[t].op = "open"
       THEN Finish(t, call[t], "ok", 0, <<>>)
       ELSE StartSpawn(t, call[t], client', conns')
    /\ closeCalled' = FALSE
    /\ UNCHANGED <<procs, ncalls>>

\* A failed connect that clears nothing but still records a connection.
ConnectFailDirty(t) ==
    /\ pc[t] = "connecting"
    /\ attempts' = [attempts EXCEPT !.failed = @ + 1]
    /\ conns' = Append(conns, "closed")
    /\ client' = Len(conns) + 1
    /\ Finish(t, call[t], "ConnectFailed", 0, <<>>)
    /\ UNCHANGED <<procs, ncalls, closeCalled>>

\* asyncssh.connect raises: the exception leaves open() and the factory that
\* awaited it; the assignment to self.client never runs.
ConnectFail(t) ==
    /\ pc[t] = "connecting"
    /\ attempts' = [attempts EXCEPT !.failed = @ + 1]
    /\ Finish(t, call[t], "ConnectFailed", 0, <<>>)
    /\ UNCHANGED <<client, conns, procs, ncalls, closeCalled>>

\* create_process returns a process; the factory wraps it in a channel.
SpawnOk(t) ==
    /\ pc[t] = "spawning"
    /\ conns[call[t].conn] = "live"
    /\ procs' = Append(procs, NewProc(call[t].op, call[t].in, call[t].conn))
    /\ Finish(t, call[t], "ok", Len(procs) + 1, <<>>)
    /\ UNCHANGED <<client, conns, attempts, ncalls, closeCalled>>

\* create_process raises: the connection went away or the server refused.
SpawnFail(t) ==
    /\ pc[t] = "spawning"
    /\ Finish(t, call[t], "ChannelOpenError", 0, <<>>)
    /\ UNCHANGED <<client, conns, attempts, procs, ncalls, closeCalled>>

\* What closing a channel does to its process record: the reader gets
\* end-of-stream (what it has buffered stays readable), the writer is closing and
\* what it had not sent is discarded.
ProcClosed(p) == [p EXCEPT !.eof = TRUE, !.closing = TRUE, !.sendBuf = <<>>]

\* What closing connection c does to a process record: the channels of c are
\* closed.
ProcAfterConnClose(p, c) ==
    IF p.conn = c THEN ProcClosed(p) ELSE p

\* close() without its test of the handle: on a session never opened the call of
\* None.close() raises.
CloseCallNoGuard(t) ==
    /\ CanStart(t)
    /\ ncalls' = ncalls + 1
    /\ IF client = NULL
       THEN /\ UNCHANGED <<conns, procs, closeCalled>>
            /\ Finish(t, CallRec("close", <<>>, 0, 0), "AttributeError", 0, <<>>)
       ELSE /\ conns' = [conns EXCEPT ![client] = "closed"]
            /\ procs' = [i \in 1 .. Len(procs) |-> ProcAfterConnClose(procs[i], client)]
            /\ closeCalled' = TRUE
            /\ Finish(t, CallRec("close", <<>>, 0, 0), "ok", 0, <<>>)
    /\ UNCHANGED <<client, attempts>>

\* PipeClient.close(): no suspension point; the handle keeps its value.
CloseCall(t) ==
    /\ CanStart(t)
    /\ ncalls' = ncalls + 1
    /\ IF client = NULL
       THEN UNCHANGED <<conns, procs, closeCalled>>
       ELSE /\ conns' = [conns EXCEPT ![client] = "closed"]
            /\ procs' = [i \in 1 .. Len(procs) |-> ProcAfterConnClose(procs[i], client)]
            /\ closeCalled' = TRUE
    /\ Finish(t, CallRec("close", <<>>, 0, 0), "ok", 0, <<>>)
    /\ UNCHANGED <<client, attempts>>

----------------------------------------------------------------------------
(* The driver of src/main.py: pipe("foobar3"), sub("foobar2"), pub("foobar") *)

MainPipeIn == [topic |-> Foobar3, public |-> FALSE, replay |-> FALSE]
MainSubIn  == [topic |-> Foobar2, keep |-> FALSE, public |-> FALSE]
MainPubIn  == [topic |-> Foobar, block |-> TRUE, empty |-> FALSE, public |-> FALSE,
               timeout |-> <<>>]

Next ==
    \E t \in Tasks :
        \/ OpenCall(t)
        \/ CloseCall(t)
        \/ FactoryCall(t, "pipe", MainPipeIn)
        \/ FactoryCall(t, "sub", MainSubIn)
        \/ FactoryCall(t, "pub", MainPubIn)
        \/ ConnectOk(t)
        \/ ConnectFail(t)
        \/ SpawnOk(t)
        \/ SpawnFail(t)

Spec == Init /\ [][Next]_vars

----------------------------------------------------------------------------
(* Channels: the read path (Sub, Pipe) *)

ReaderKinds == {"pipe", "sub"}

\* The transport delivers one more byte of the remote process's output.
Deliver(i, b) ==
    /\ i \in 1 .. Len(procs)
    /\ ~procs[i].eof
    /\ conns[procs[i].conn] = "live"
    /\ Len(procs[i].arrived) < MaxBytes
    /\ procs' = [procs EXCEPT ![i].recvBuf = Append(@, b), ![i].arrived = Append(@, b)]
    /\ UNCHANGED <<client, conns, attempts, pc, call, last, ncalls, closeCalled>>

\* The remote process ends its output.
RemoteEof(i) ==
    /\ i \in 1 .. Len(procs)
    /\ ~procs[i].eof
    /\ conns[procs[i].conn] = "live"
    /\ procs' = [procs EXCEPT ![i].eof = TRUE]
    /\ UNCHANGED <<client, conns, attempts, pc, call, last, ncalls, closeCalled>>

\* The connection is lost with an error: its channels are closed; a reader either
\* holds the error for its next read() or reports a plain end-of-stream.
ConnLost(c) ==
    /\ c \in 1 .. Len(conns)
    /\ conns[c] = "live"
    /\ conns' = [conns EXCEPT ![c] = "lost"]
    /\ \E f \in {"pending", "silent"} :
          procs' = [i \in 1 .. Len(procs) |->
                       IF procs[i].conn = c
                       THEN [ProcClosed(procs[i]) EXCEPT
                                !.failed = IF procs[i].failed = "no" THEN f ELSE @]
                       ELSE procs[i]]
    /\ UNCHANGED <<client, attempts, pc, call, last, ncalls, closeCalled>>

\* self._output.read(size) has something to return or to raise.
ReadReady(p) == p.recvBuf # <<>> \/ p.eof

\* read() handing out the whole buffer, whatever the size asked for.
ReadTakeAll(p, n) == Len(p.recvBuf)

\* How many bytes self._output.read(n) takes from a non-empty buffer.
ReadTake(p, n) == Min(n, Len(p.recvBuf))

\* The connection's error handed out once for the whole connection: the first
\* read() to raise takes it away from every other reader.
ErrorTakenFromAll(i) ==
    [j \in 1 .. Len(procs) |->
        IF procs[j].conn = procs[i].conn /\ procs[j].failed = "pending"
        THEN [procs[j] EXCEPT !.failed = "raised"]
        ELSE procs[j]]

\* The channels once read() on channel i has raised the error its reader held:
\* each reader holds its own.
ErrorTaken(i) == [procs EXCEPT ![i].failed = "raised"]

\* "return await self._output.read(size)" returns or raises: buffered bytes first,
\* from the front; with none left the stream is at its end: the connection's
\* error if the reader holds one, else the empty result.
ReadComplete(t, cr) ==
    LET p == procs[cr.chan]
        k == ReadTake(p, cr.size)
    IN  IF p.recvBuf # <<>>
        THEN /\ procs' = [procs EXCEPT
                    ![cr.chan].recvBuf = SubSeq(p.recvBuf, k + 1, Len(p.recvBuf)),
                    ![cr.chan].consumed = @ \o SubSeq(p.recvBuf, 1, k)]
             /\ Finish(t, cr, "ok", cr.chan, SubSeq(p.recvBuf, 1, k))
        ELSE IF p.failed = "pending"
        THEN /\ procs' = ErrorTaken(cr.chan)
             /\ Finish(t, cr, "ConnectionLost", cr.chan, <<>>)
        ELSE /\ procs' = [procs EXCEPT ![cr.chan].eofSeen = TRUE]
             /\ Finish(t, cr, "ok", cr.chan, <<>>)

\* Sub.read(size) is called: it returns at once when the reader has something,
\* else the task is suspended.  One reader per channel at a time (the caller's
\* responsibility).
ReadCall(t, i, n) ==
    /\ CanStart(t)
    /\ i \in 1 .. Len(procs)
    /\ procs[i].kind \in ReaderKinds
    /\ \A u \in Tasks : ~(pc[u] = "reading" /\ call[u].chan = i)
    /\ ncalls' = ncalls + 1
    /\ IF ReadReady(procs[i])
       THEN ReadComplete(t, CallRec("read", <<>>, i, n))
       ELSE /\ pc' = [pc EXCEPT ![t] = "reading"]
            /\ call' = [call EXCEPT ![t] = CallRec("read", <<>>, i, n)]
            /\ UNCHANGED <<procs, last>>
    /\ UNCHANGED <<client, conns, attempts, closeCalled>>

\* A suspended read() is resumed.
ReadResume(t) ==
    /\ pc[t] = "reading"
    /\ ReadReady(procs[call[t].chan])
    /\ ReadComplete(t, call[t])
    /\ UNCHANGED <<client, conns, attempts, ncalls, closeCalled>>

\* at_eof() that never reports the end.
AtEofNever(p) == {FALSE}

\* at_eof() looking at the end-of-stream flag alone.
AtEofFlagOnly(p) == {p.eof}

\* self._output.at_eof(): end-of-stream was received and the buffer is empty; an
\* error the reader still holds counts as buffered.
AtEof(p) == {p.eof /\ p.recvBuf = <<>> /\ p.failed # "pending"}

\* Sub.read_done(): no suspension point.
ReadDoneCall(t, i) ==
    /\ CanStart(t)
    /\ i \in 1 .. Len(procs)
    /\ procs[i].kind \in ReaderKinds
    /\ ncalls' = ncalls + 1
    /\ \E v \in AtEof(procs[i]) :
          FinishWith(t, CallRec("read_done", <<>>, i, 0), "ok", i, <<>>, v)
    /\ UNCHANGED <<client, conns, attempts, procs, closeCalled>>

\* The state once the first factory call of a fresh session has returned a channel
\* (a Pipe as in main.pipe, or a Sub as in main.sub); ncalls counts from here.
StreamInit ==
    /\ client = 1
    /\ conns = <<"live">>
    /\ attempts = [direct |-> 0, factory |-> 1, failed |-> 0]
    /\ procs \in {<<NewProc("pipe", MainPipeIn, 1)>>, <<NewProc("sub", MainSubIn, 1)>>}
    /\ pc = [t \in Tasks |-> "idle"]
    /\ call = [t \in Tasks |-> NoCall]
    /\ last = [NoResult EXCEPT !.task = 1, !.op = procs[1].kind, !.status = "ok",
                               !.chan = 1, !.tries = 1]
    /\ ncalls = 0
    /\ closeCalled = FALSE

StreamNext ==
    \/ \E i \in 1 .. Len(procs), b \in Bytes : Deliver(i, b)
    \/ \E i \in 1 .. Len(procs) : RemoteEof(i)
    \/ \E c \in 1 .. Len(conns) : ConnLost(c)
    \/ \E t \in Tasks, i \in 1 .. Len(procs), n \in ReadSizes : ReadCall(t, i, n)
    \/ \E t \in Tasks : ReadResume(t)
    \/ \E t \in Tasks, i \in 1 .. Len(procs) : ReadDoneCall(t, i)
    \/ \E t \in Tasks : CloseCall(t)

SpecStream == StreamInit /\ [][StreamNext]_vars

----------------------------------------------------------------------------
(* The write side of a channel, and the channel's close()                  *)

WriterKinds == {"pipe", "pub"}

\* The writer's buffer limits, to scale: write is paused above HighWater and
\* resumed at LowWater (a quarter of it).
HighWater == 1
LowWater == HighWater \div 4

\* What a caller hands to write(): one to MaxBytes units of payload.
Payloads == UNION {[1 .. n -> Bytes] : n \in 1 .. MaxBytes}

\* The transport takes the oldest buffered unit of the input stream.
Flush(i) ==
    /\ i \in 1 .. Len(procs)
    /\ ~procs[i].closing
    /\ procs[i].sendBuf # <<>>
    /\ procs' = [procs EXCEPT ![i].sendBuf = Tail(@),
                              ![i].sent = Append(@, Head(procs[i].sendBuf))]
    /\ UNCHANGED <<client, conns, attempts, pc, call, last, ncalls, closeCalled>>

\* The remote side closes the channel (the remote process has exited).
RemoteClose(i) ==
    /\ i \in 1 .. Len(procs)
    /\ ~procs[i].closing
    /\ conns[procs[i].conn] = "live"
    /\ procs' = [procs EXCEPT ![i] = ProcClosed(@)]
    /\ UNCHANGED <<client, conns, attempts, pc, call, last, ncalls, closeCalled>>

\* self._input.write(data) putting the new data in front of what is buffered.
EnqueueFront(buf, data) == data \o buf

\* self._input.write(data): the data goes behind what is already buffered.
Enqueue(buf, data) == buf \o data

\* write() without the stream's test of its own state: data is taken though the
\* stream is closing.
WriteNeverRefused(p) == FALSE

\* self._input.write(data) raises when the stream is no longer open.
WriteRefused(p) == p.closing

\* Pub.write(data): "self._input.write(data)" raises on a stream no longer open;
\* else the data is buffered, the transport takes at once what it can (k units),
\* and "await self._input.drain()" suspends only while the writer is paused.  The
\* call record's size is where this data ends in the stream of written payloads.
WriteCall(t, i, data) ==
    /\ CanStart(t)
    /\ i \in 1 .. Len(procs)
    /\ procs[i].kind \in WriterKinds
    /\ Len(procs[i].written) + Len(data) <= MaxBytes
    /\ ncalls' = ncalls + 1
    /\ LET p == procs[i]
           cr == CallRec("write", <<>>, i, Len(p.written) + Len(data))
           buf == Enqueue(p.sendBuf, data)
       IN  IF WriteRefused(p)
           THEN /\ Finish(t, cr, "BrokenPipeError", i, <<>>)
                /\ UNCHANGED procs
           ELSE \E k \in 0 .. Len(buf) :
                   /\ procs' = [procs EXCEPT
                          ![i].sendBuf = SubSeq(buf, k + 1, Len(buf)),
                          ![i].sent = @ \o SubSeq(buf, 1, k),
                          ![i].written = @ \o data]
                   /\ IF Len(buf) - k > HighWater
                      THEN /\ pc' = [pc EXCEPT ![t] = "draining"]
                           /\ call' = [call EXCEPT ![t] = cr]
                           /\ UNCHANGED last
                      ELSE Finish(t, cr, "ok", i, <<>>)
    /\ UNCHANGED <<client, conns, attempts, closeCalled>>

\* A suspended drain() is resumed: the buffer is down at the low-water mark, or
\* the channel was closed under it and drain() raises.
DrainResume(t) ==
    /\ pc[t] = "draining"
    /\ LET p == procs[call[t].chan]
       IN  IF p.closing
           THEN Finish(t, call[t],
                       IF p.failed = "no" THEN "BrokenPipeError" ELSE "ConnectionLost",
                       call[t].chan, <<>>)
           ELSE /\ Len(p.sendBuf) <= LowWater
                /\ Finish(t, call[t], "ok", call[t].chan, <<>>)
    /\ UNCHANGED <<client, conns, attempts, procs, ncalls, closeCalled>>

\* Pub.write_done(): self._input.is_closing(); no suspension point.
WriteDoneCall(t, i) ==
    /\ CanStart(t)
    /\ i \in 1 .. Len(procs)
    /\ procs[i].kind \in WriterKinds
    /\ ncalls' = ncalls + 1
    /\ FinishWith(t, CallRec("write_done", <<>>, i, 0), "ok", i, <<>>, procs[i].closing)
    /\ UNCHANGED <<client, conns, attempts, procs, closeCalled>>

\* The channels a channel's close() closes, were it to close every channel of its
\* connection.
CloseTargetsConn(i) == {j \in 1 .. Len(procs) : procs[j].conn = procs[i].conn}

\* The channels a channel's close() closes: its own process.
CloseTargets(i) == {i}

\* A channel closed by its owner: what is buffered may still go out (k units)
\* ahead of the close.
ProcClosedGracefully(p, k) ==
    ProcClosed([p EXCEPT !.sent = @ \o SubSeq(p.sendBuf, 1, k)])

\* PipeBase.close(): "self._proc.close()" closes the process's channel and returns
\* None; awaiting that value raises TypeError.  No suspension point.
ChanCloseCall(t, i) ==
    /\ CanStart(t)
    /\ i \in 1 .. Len(procs)
    /\ ncalls' = ncalls + 1
    /\ \E k \in 0 .. Len(procs[i].sendBuf) :
          procs' = [j \in 1 .. Len(procs) |->
                       IF j \in CloseTargets(i)
                       THEN IF j = i THEN ProcClosedGracefully(procs[j], k)
                                     ELSE ProcClosed(procs[j])
                       ELSE procs[j]]
    /\ Finish(t, CallRec("chan_close", <<>>, i, 0), "TypeError", i, <<>>)
    /\ UNCHANGED <<client, conns, attempts, closeCalled>>

\* The state once the factory calls of a fresh session have returned their
\* channels over one connection: main.sub's and main.pub's, or main.pipe's alone.
ChanInit ==
    /\ client = 1
    /\ conns = <<"live">>
    /\ attempts = [direct |-> 0, factory |-> 1, failed |-> 0]
    /\ procs \in {<<NewProc("sub", MainSubIn, 1), NewProc("pub", MainPubIn, 1)>>,
                  <<NewProc("pipe", MainPipeIn, 1)>>}
    /\ pc = [t \in Tasks |-> "idle"]
    /\ call = [t \in Tasks |-> NoCall]
    /\ last = [NoResult EXCEPT !.task = 1, !.op = procs[1].kind, !.status = "ok",
                               !.chan = 1, !.tries = 1]
    /\ ncalls = 0
    /\ closeCalled = FALSE

\* The tasks of main: one reads, one writes, one closes.
Reader == 1
Writer == 2
Closer == 3

\* Here main's loops meet the channel's close and failure paths: the remote output
\* is a run of one unit value and every read is main's "a.read()" with the default
\* size (SpecStream covers mixed content and sizes).
ChanBytes == {"x"}

ChanNext ==
    \/ \E i \in 1 .. Len(procs), b \in ChanBytes :
          procs[i].kind \in ReaderKinds /\ Deliver(i, b)
    \/ \E i \in 1 .. Len(procs) : procs[i].kind \in ReaderKinds /\ RemoteEof(i)
    \/ \E i \in 1 .. Len(procs) : RemoteClose(i)
    \/ \E c \in 1 .. Len(conns) : ConnLost(c)
    \/ \E i \in 1 .. Len(procs) : Flush(i)
    \/ \E i \in 1 .. Len(procs) : ReadCall(Reader, i, DefaultReadSize)
    \/ ReadResume(Reader)
    \/ \E i \in 1 .. Len(procs) : ReadDoneCall(Reader, i)
    \/ \E i \in 1 .. Len(procs), d \in Payloads : WriteCall(Writer, i, d)
    \/ DrainResume(Writer)
    \/ \E i \in 1 .. Len(procs) : WriteDoneCall(Writer, i)
    \/ \E i \in 1 .. Len(procs) : ChanCloseCall(Closer, i)
    \/ CloseCall(Closer)

SpecChan == ChanInit /\ [][ChanNext]_vars


----------------------------------------------------------------------------
(* main.sub's loop: "while not a.read_done(): data = await a.read()"       *)

\* The loop was left by an exception out of read().
LoopRaised(t) == last.task = t /\ last.op = "read" /\ last.status # "ok"

\* The loop is over: left by its test or by an exception.
LoopOver(t) == pc[t] = "exited" \/ (pc[t] = "idle" /\ LoopRaised(t))

\* One turn of the loop up to its next suspension point: the test, and when it
\* lets the loop go on the call of a.read(), which returns at once when the reader
\* has something.  No suspension point between the test and the call.
LoopStep(t) ==
    /\ pc[t] = "idle"
    /\ ~LoopRaised(t)
    /\ \E v \in AtEof(procs[1]) :
          IF v
          THEN /\ pc' = [pc EXCEPT ![t] = "exited"]
               /\ last' = [NoResult EXCEPT !.task = t, !.op = "read_done",
                                           !.status = "ok", !.chan = 1, !.flag = TRUE]
               /\ UNCHANGED <<procs, call>>
          ELSE IF ReadReady(procs[1])
          THEN ReadComplete(t, CallRec("read", <<>>, 1, DefaultReadSize))
          ELSE /\ pc' = [pc EXCEPT ![t] = "reading"]
               /\ call' = [call EXCEPT ![t] = CallRec("read", <<>>, 1, DefaultReadSize)]
               /\ UNCHANGED <<procs, last>>
    /\ UNCHANGED <<client, conns, attempts, ncalls, closeCalled>>

\* The state once "a = await pc.sub("foobar2")" has returned in main.sub.
LoopInit ==
    /\ client = 1
    /\ conns = <<"live">>
    /\ attempts = [direct |-> 0, factory |-> 1, failed |-> 0]
    /\ procs = <<NewProc("sub", MainSubIn, 1)>>
    /\ pc = [t \in Tasks |-> "idle"]
    /\ call = [t \in Tasks |-> NoCall]
    /\ last = [NoResult EXCEPT !.task = Reader, !.op = "sub", !.status = "ok",
                               !.chan = 1, !.tries = 1]
    /\ ncalls = 0
    /\ closeCalled = FALSE

LoopNext ==
    \/ \E b \in Bytes : Deliver(1, b)
    \/ RemoteEof(1)
    \/ RemoteClose(1)
    \/ ConnLost(1)
    \/ LoopStep(Reader)
    \/ ReadResume(Reader)

\* The event loop runs a task that can run: the loop's turn and the resumption of
\* its suspended read() are not put off for ever.  Nothing is assumed of the
\* remote side.
SpecLoop ==
    /\ LoopInit
    /\ [][LoopNext]_vars
    /\ WF_vars(LoopStep(Reader))
    /\ WF_vars(ReadResume(Reader))

----------------------------------------------------------------------------
(* Argument building over a space of inputs: one caller, one factory call *)

ArgChars == {"a", " ", "'", ";", "\"", "\\", "$"}

ArgStrings == UNION {[1 .. n -> ArgChars] : n \in 0 .. MaxTopicLen}

Timeouts == {s \in ArgStrings : Len(s) <= 1} \cup {<<"5", "s">>, <<" ", ";">>}

ArgsNext ==
    \/ /\ ncalls = 0
       /\ \E topic \in ArgStrings, public \in BOOLEAN, replay \in BOOLEAN :
             FactoryCall(1, "pipe",
                 [topic |-> topic, public |-> public, replay |-> replay])
    \/ /\ ncalls = 0
       /\ \E topic \in ArgStrings, block \in BOOLEAN, empty \in BOOLEAN,
             public \in BOOLEAN, timeout \in Timeouts :
             FactoryCall(1, "pub",
                 [topic |-> topic, block |-> block, empty |-> empty,
                  public |-> public, timeout |-> timeout])
    \/ /\ ncalls = 0
       /\ \E topic \in ArgStrings, keep \in BOOLEAN, public \in BOOLEAN :
             FactoryCall(1, "sub", [topic |-> topic, keep |-> keep, public |-> public])
    \/ ConnectOk(1)
    \/ ConnectFail(1)
    \/ SpawnOk(1)
    \/ SpawnFail(1)

SpecArgs == Init /\ [][ArgsNext]_vars

----------------------------------------------------------------------------
(* Shell word splitting, the yardstick of the quoting: how a POSIX shell (and *)
(* shlex.split) cuts a command line into words.  A character that would     *)
(* change the command's structure where it stands (an unquoted              *)
(* metacharacter, an expansion, an unterminated quote) gives Broken.        *)

Broken == << <<"BROKEN">> >>

RECURSIVE ShWords(_, _, _, _, _)
ShWords(s, mode, cur, inWord, words) ==
    IF s = <<>>
    THEN IF mode # "plain" THEN Broken
         ELSE IF inWord THEN Append(words, cur) ELSE words
    ELSE LET c == Head(s)
             r == Tail(s)
         IN  IF mode = "single"
             THEN IF c = "'" THEN ShWords(r, "plain", cur, TRUE, words)
                  ELSE ShWords(r, "single", Append(cur, c), TRUE, words)
             ELSE IF mode = "double"
             THEN IF c = "\"" THEN ShWords(r, "plain", cur, TRUE, words)
                  ELSE IF c = "$" THEN Broken
                  ELSE IF c = "\\"
                  THEN IF r # <<>> /\ Head(r) \in {"$", "\"", "\\"}
                       THEN ShWords(Tail(r), "double", Append(cur, Head(r)), TRUE, words)
                       ELSE ShWords(r, "double", Append(cur, c), TRUE, words)
                  ELSE ShWords(r, "double", Append(cur, c), TRUE, words)
             ELSE IF c = " "
                  THEN ShWords(r, "plain", <<>>, FALSE,
                               IF inWord THEN Append(words, cur) ELSE words)
                  ELSE IF c = "'" THEN ShWords(r, "single", cur, TRUE, words)
                  ELSE IF c = "\"" THEN ShWords(r, "double", cur, TRUE, words)
                  ELSE IF c = "\\"
                  THEN IF r = <<>> THEN Broken
                       ELSE ShWords(Tail(r), "plain", Append(cur, Head(r)), TRUE, words)
                  ELSE IF c \in SafeChars
                  THEN ShWords(r, "plain", Append(cur, c), TRUE, words)
                  ELSE Broken

ShSplit(s) == ShWords(s, "plain", <<>>, FALSE, <<>>)

Opt(b, x) == IF b THEN <<x>> ELSE <<>>

LiveConns == {c \in 1 .. Len(conns) : conns[c] = "live"}

ChannelOps == FactoryOps \cup {"read", "write"}

----------------------------------------------------------------------------
(* Claims *)

\* C1: when only pipe(), pub() and sub() have triggered connection attempts (open()
\* was never called directly) and no attempt has failed, there has been exactly one
\* underlying connection attempt: later callers wait instead of starting a second.
C1_OneConnectionAttempt ==
    (attempts.direct = 0 /\ attempts.failed = 0) => attempts.factory <= 1

\* C2: in every reachable state the session has at most one live (established and
\* not yet closed) underlying connection.
C2_AtMostOneLiveConnection == Cardinality(LiveConns) <= 1

\* C3: a channel operation started after close() has run on an opened session fails
\* with SessionClosedError.
C3_FailsWithSessionClosedError ==
    (last.afterClose /\ last.op \in ChannelOps) => last.status = "SessionClosedError"

\* C4: when the connection attempt made for a pipe(), pub() or sub() call fails,
\* that step raises the failure to that caller, returns no channel, spawns no
\* process, starts no further attempt (one attempt per call) and leaves the
\* connection handle and the connections as they were (null stays null).
C4_FailedOpenPropagates ==
    [][\A t \in Tasks :
          (/\ pc[t] = "connecting"
           /\ call[t].op \in FactoryOps
           /\ pc'[t] # pc[t]
           /\ attempts'.failed # attempts.failed)
          => /\ last'.task = t
             /\ last'.status \notin {"ok", "none"}
             /\ last'.chan = 0
             /\ last'.tries = 1
             /\ pc'[t] = "idle"
             /\ procs' = procs
             /\ client' = client
             /\ (client = NULL => client' = NULL)
             /\ conns' = conns
             /\ attempts'.direct = attempts.direct
             /\ attempts'.factory = attempts.factory]_vars

\* C4 witness: a factory call has ended with the connection failure and the handle
\* is null.
C4_Witness ==
    /\ last.op \in FactoryOps
    /\ last.status = "ConnectFailed"
    /\ client = NULL
    /\ procs = <<>>

\* C5: every process spawned by pipe() has the argument list ["pipe"], then the
\* topic iff non-empty, then "-p" iff public, then "-r" iff replay.
C5_PipeArgs ==
    \A i \in 1 .. Len(procs) :
        procs[i].kind = "pipe" =>
            procs[i].args = <<S_pipe>> \o Opt(procs[i].in.topic # <<>>, procs[i].in.topic)
                                \o Opt(procs[i].in.public, S_p)
                                \o Opt(procs[i].in.replay, S_r)

\* C5 witness: pipe() has spawned a process with a topic and both flags.
C5_Witness ==
    \E i \in 1 .. Len(procs) :
        /\ procs[i].kind = "pipe"
        /\ procs[i].in.topic = <<"a", " ">>
        /\ procs[i].in.public
        /\ procs[i].in.replay
        /\ procs[i].args = <<S_pipe, <<"a", " ">>, S_p, S_r>>

\* C6: every process spawned by pub() has the argument list ["pub"], then the topic
\* iff non-empty, then "-b=false" iff not block, then "-e" iff empty, then "-p" iff
\* public, then "-t=" followed by the timeout as given iff the timeout is non-empty.
C6_PubArgs ==
    \A i \in 1 .. Len(procs) :
        procs[i].kind = "pub" =>
            procs[i].args = <<S_pub>> \o Opt(procs[i].in.topic # <<>>, procs[i].in.topic)
                                \o Opt(~procs[i].in.block, S_bfalse)
                                \o Opt(procs[i].in.empty, S_e)
                                \o Opt(procs[i].in.public, S_p)
                                \o Opt(procs[i].in.timeout # <<>>,
                                       <<"-", "t", "=">> \o procs[i].in.timeout)

\* C6 witness: pub(topic="a", block=false, timeout="5s") has spawned
\* ["pub", "a", "-b=false", "-t=5s"].
C6_Witness ==
    \E i \in 1 .. Len(procs) :
        /\ procs[i].kind = "pub"
        /\ procs[i].in = [topic |-> <<"a">>, block |-> FALSE, empty |-> FALSE,
                          public |-> FALSE, timeout |-> <<"5", "s">>]
        /\ procs[i].args = <<S_pub, <<"a">>, S_bfalse, <<"-", "t", "=", "5", "s">> >>

\* C7: every process spawned by sub() has the argument list ["sub", topic], then
\* "-k" iff keep, then "-p" iff public; the topic is there also when it is empty.
C7_SubArgs ==
    \A i \in 1 .. Len(procs) :
        procs[i].kind = "sub" =>
            /\ Len(procs[i].args) >= 2
            /\ procs[i].args[1] = S_sub
            /\ procs[i].args[2] = procs[i].in.topic
            /\ SubSeq(procs[i].args, 3, Len(procs[i].args))
                   = Opt(procs[i].in.keep, S_k) \o Opt(procs[i].in.public, S_p)

\* C7 witness: sub(topic="", keep=true) has spawned ["sub", "", "-k"].
C7_Witness ==
    \E i \in 1 .. Len(procs) :
        /\ procs[i].kind = "sub"
        /\ procs[i].in = [topic |-> <<>>, keep |-> TRUE, public |-> FALSE]
        /\ procs[i].args = <<S_sub, <<>>, S_k>>

\* C8: the command line of every spawned process splits, under shell word
\* splitting, into exactly the argument list it was built from.
C8_CommandLineSplitsToArgs ==
    \A i \in 1 .. Len(procs) : ShSplit(procs[i].cmd) = procs[i].args

\* C8 witness: a process was spawned whose topic holds a quote and a blank and whose
\* timeout holds a metacharacter.
C8_Witness ==
    \E i \in 1 .. Len(procs) :
        /\ procs[i].kind = "pub"
        /\ procs[i].in.topic = <<"'", " ">>
        /\ procs[i].in.timeout = <<" ", ";">>
        /\ procs[i].cmd # Flatten(<<S_pub, <<" ">>, procs[i].in.topic, <<" ">>,
                                    S_t, procs[i].in.timeout>>)

\* C9 (as claimed): read_done() never reports true before a read() on that channel
\* has observed end-of-stream (returned the empty result).
C9_TrueOnlyAfterEofRead ==
    (last.op = "read_done" /\ last.flag) => procs[last.chan].eofSeen

\* C9 (amended): read_done() reports true only when end-of-stream has been received
\* and every byte that arrived has been read, it reports true whenever that is so
\* and no connection error is pending, and a channel that is at its end stays there.
C9_TrueExactlyAtEnd ==
    [][/\ (ncalls' # ncalls /\ last'.op = "read_done") =>
            LET p == procs[last'.chan]
            IN  /\ last'.flag => (p.eof /\ p.consumed = p.arrived)
                /\ (p.eof /\ p.consumed = p.arrived /\ p.failed # "pending")
                       => last'.flag
       /\ \A i \in 1 .. Len(procs) :
            (procs[i].eof /\ procs[i].consumed = procs[i].arrived)
                => (procs'[i].eof /\ procs'[i].consumed = procs'[i].arrived)]_vars

\* C9 witness: read_done() has reported true on a channel whose bytes were all read
\* and on which no read() has returned the empty result.
C9_Witness ==
    /\ last.op = "read_done"
    /\ last.flag
    /\ procs[last.chan].arrived # <<>>
    /\ procs[last.chan].consumed = procs[last.chan].arrived
    /\ ~procs[last.chan].eofSeen

\* C10: a read() stays suspended while its stream has no data and is not at its end;
\* when it returns it yields between 1 and max_size bytes, the next bytes of the
\* stream in arrival order, or the empty result, and that only at end-of-stream.
C10_ReadReturnsFront ==
    [][/\ \A t \in Tasks :
            (pc[t] = "reading" /\ ~ReadReady(procs[call[t].chan]))
                => pc'[t] = "reading"
       /\ (last'.op = "read" /\ last'.status = "ok" /\ last' # last) =>
            LET p == procs[last'.chan]
                q == procs'[last'.chan]
                d == last'.data
            IN  /\ Len(d) <= last'.size
                /\ q.consumed = p.consumed \o d
                /\ q.arrived = p.arrived
                /\ SubSeq(p.arrived, Len(p.consumed) + 1, Len(p.consumed) + Len(d)) = d
                /\ d = <<>> => (p.eof /\ p.consumed = p.arrived)
                /\ (p.consumed # p.arrived) => Len(d) >= 1
       /\ \A i \in 1 .. Len(procs) :
            procs'[i].arrived = procs'[i].consumed \o procs'[i].recvBuf]_vars

\* C10 witness: a read() that was suspended has returned one byte of a stream that
\* holds more.
C10_Witness ==
    /\ last.op = "read"
    /\ last.status = "ok"
    /\ Len(last.data) = 1
    /\ last.size = 1
    /\ Len(procs[last.chan].recvBuf) >= 1
    /\ ~procs[last.chan].eof

\* C15: once close() has run on the session (and no connection was established
\* since), no connection the session established is live and no channel created
\* from it is open.
C15_NothingLiveAfterClose ==
    closeCalled => (LiveConns = {} /\ \A i \in 1 .. Len(procs) : procs[i].closing)

\* C16: close() on a session that was never opened returns without error, makes no
\* connection attempt and changes nothing (the handle stays null); on an opened
\* session it closes the connection the handle holds.  (A step that starts a call
\* and leaves every task idle is a close() that ran to its end.)
C16_CloseNoOpOrRelease ==
    [][(ncalls' # ncalls /\ pc' = pc /\ last'.op = "close") =>
          /\ last'.status = "ok"
          /\ attempts' = attempts
          /\ call' = call
          /\ client' = client
          /\ (client = NULL => (conns' = conns /\ procs' = procs /\ closeCalled' = closeCalled))
          /\ (client # NULL => conns'[client] # "live")]_vars

\* C16 witness: close() has returned on a session that never made a connection
\* attempt.
C16_Witness ==
    /\ last.op = "close"
    /\ last.status = "ok"
    /\ client = NULL
    /\ attempts.direct + attempts.factory = 0

\* C18: every open channel runs over the connection the session's handle holds.
C18_ChannelsOnCurrentConnection ==
    \A i \in 1 .. Len(procs) : ~procs[i].closing => procs[i].conn = client

\* A call that ran from its start to its return in one step.
ReturnedAtOnce(op) == ncalls' # ncalls /\ pc' = pc /\ last'.op = op

\* C11: whenever write(data) returns without error, all of its data has left the
\* local buffer (the transport has taken the stream up to the end of this data).
C11_FlushedOnReturn ==
    [][(last' # last /\ last'.op = "write" /\ last'.status = "ok") =>
          Len(procs'[last'.chan].sent) >= last'.size]_vars

C13_SecondCloseNoError ==
    [][(/\ ReturnedAtOnce("chan_close")
        /\ last.op = "chan_close"
        /\ last.chan = last'.chan
        /\ procs[last'.chan].closing) =>
          /\ last'.status = "ok"
          /\ procs' = procs
          /\ conns' = conns
          /\ client' = client]_vars

\* C14 (as claimed): once a read() on a channel has failed, the next write() on a
\* different channel of the same connection completes.
C14_SiblingWriteCompletes ==
    [][(/\ ReturnedAtOnce("write")
        /\ \E j \in 1 .. Len(procs) :
              /\ j # last'.chan
              /\ procs[j].conn = procs[last'.chan].conn
              /\ procs[j].failed = "raised") =>
          last'.status = "ok"]_vars

\* C14 (amended): a read() fails only on a connection that is no longer live, and
\* the failing step changes nothing but its own channel and its own task: no other
\* channel's state, no other task's position or call, not the session.  A write()
\* on a channel that is still open completes whatever has failed elsewhere.
C14_FailureIsolated ==
    [][/\ (last' # last /\ last'.op = "read" /\ last'.status = "ConnectionLost") =>
             /\ conns[procs[last'.chan].conn] # "live"
             /\ \A j \in 1 .. Len(procs) : j # last'.chan => procs'[j] = procs[j]
             /\ \A u \in Tasks : u # last'.task => (pc'[u] = pc[u] /\ call'[u] = call[u])
             /\ conns' = conns
             /\ client' = client
       /\ (ReturnedAtOnce("write") /\ ~procs[last'.chan].closing) =>
             last'.status = "ok"]_vars

\* C14 witness: a read() has failed while a write() on a different channel is
\* suspended.
C14_Witness ==
    /\ last.op = "read"
    /\ last.status = "ConnectionLost"
    /\ \E t \in Tasks : pc[t] = "draining" /\ call[t].chan # last.chan

IsPrefix(a, b) == Len(a) <= Len(b) /\ SubSeq(b, 1, Len(a)) = a

\* C17: what the transport has taken of a channel's input is the concatenation of
\* the written payloads in the order of the write() calls, unit for unit: always a
\* prefix of it, and together with what is still buffered all of it while the
\* channel is open.  What read() has returned so far, followed by what is
\* buffered, is what arrived, unit for unit.
C17_PayloadOpaque ==
    \A i \in 1 .. Len(procs) :
        /\ IsPrefix(procs[i].sent, procs[i].written)
        /\ ~procs[i].closing => procs[i].sent \o procs[i].sendBuf = procs[i].written
        /\ procs[i].consumed \o procs[i].recvBuf = procs[i].arrived

\* C17 witness: a Pipe channel whose transport has taken two different units and
\* whose reader has returned data.
C17_Witness ==
    \E i \in 1 .. Len(procs) :
        /\ procs[i].kind = "pipe"
        /\ Len(procs[i].sent) >= 2
        /\ procs[i].sent[1] # procs[i].sent[2]
        /\ procs[i].consumed # <<>>

\* C19: a channel's close() closes that channel's process with both stream ends
\* (its input is closing, so write_done() is true; its output is at end-of-stream
\* behind what is still buffered to read) and nothing else: every other channel,
\* every task, the connections and the session's handle are as before.
C19_ClosesOwnProcessOnly ==
    [][ReturnedAtOnce("chan_close") =>
          /\ procs'[last'.chan].closing
          /\ procs'[last'.chan].eof
          /\ procs'[last'.chan].sendBuf = <<>>
          /\ procs'[last'.chan].recvBuf = procs[last'.chan].recvBuf
          /\ \A j \in 1 .. Len(procs) : j # last'.chan => procs'[j] = procs[j]
          /\ call' = call
          /\ conns' = conns
          /\ client' = client
          /\ closeCalled' = closeCalled]_vars

\* C19 witness: a channel was closed by close() while its sibling on the same live
\* connection is open.
C19_Witness ==
    /\ last.op = "chan_close"
    /\ procs[last.chan].closing
    /\ procs[last.chan].eof
    /\ \E j \in 1 .. Len(procs) :
          /\ j # last.chan
          /\ ~procs[j].closing
          /\ procs[j].conn = procs[last.chan].conn
          /\ conns[procs[j].conn] = "live"

\* C20: under fair scheduling, once the remote side has ended the stream the loop
\* "while not read_done(): read()" is over in the end; and once it is over (its
\* test found read_done() true, or read() raised) the task issues no read() and
\* takes nothing from the channel any more.
C20_LoopTerminates ==
    /\ procs[1].eof ~> LoopOver(Reader)
    /\ [][LoopOver(Reader) =>
             /\ LoopOver(Reader)'
             /\ pc'[Reader] = pc[Reader]
             /\ last' = last
             /\ procs'[1].consumed = procs[1].consumed]_vars

\* C20 witness: the loop has returned data, and then its test found read_done()
\* true and left the loop.
C20_Witness ==
    /\ pc[Reader] = "exited"
    /\ last.op = "read_done"
    /\ last.flag
    /\ procs[1].consumed # <<>>

====
